---- MODULE Spec2Model ----
(***************************************************************************)
(* Model of SteamStatusMonitorPlugin (src/main.py): the background         *)
(* monitor_loop task, terminate(), fetch_status() and the on_steam_status  *)
(* command handler, as coroutines scheduled by one asyncio event loop.     *)
(* Every action runs a coroutine from one suspension point (await/yield)   *)
(* to the next, which is the granularity at which asyncio interleaves.     *)
(***************************************************************************)
EXTENDS Integers, Sequences, FiniteSets, TLC

\* ------------------------------------------------------------------ bounds
MaxTicks == 2
MaxPush == 2
MaxGroups == 2
MaxQueries == 1

\* ------------------------------------------------------- strings and values
\* A Python str is modelled as a sequence of one-character strings, a config
\* entry as a tagged value: an int or a str.
Whitespace == {" ", "\t"}

DigitChar == <<"0", "1", "2", "3", "4", "5", "6", "7", "8", "9">>

IntVal(n) == [t |-> "int", v |-> n]
StrVal(s) == [t |-> "str", v |-> s]

RECURSIVE IntToStr(_)
IntToStr(n) ==
    IF n < 10 THEN <<DigitChar[n + 1]>>
    ELSE IntToStr(n \div 10) \o <<DigitChar[(n % 10) + 1]>>

\* str(x)
Str(x) == IF x.t = "int" THEN IntToStr(x.v) ELSE x.v

RECURSIVE LStrip(_)
LStrip(s) ==
    IF s # <<>> /\ Head(s) \in Whitespace THEN LStrip(Tail(s)) ELSE s

RECURSIVE RStrip(_)
RStrip(s) ==
    IF s # <<>> /\ s[Len(s)] \in Whitespace
    THEN RStrip(SubSeq(s, 1, Len(s) - 1)) ELSE s

\* s.strip()
Strip(s) == RStrip(LStrip(s))

\* dict.get(key, default)
Get(c, key, default) == IF key \in DOMAIN c THEN c[key] ELSE default

\* ------------------------------------------------------------------ targets
names == <<"Steam Store", "Steam Community", "Steam API">>

targets == 1..Len(names)

\* ------------------------------------------------------------ fetch_status
\* What self.client.get(url) can do: return a response with a status code, or
\* raise (transport error, timeout, closed client); status_code is 0 then.
StatusCodes == {199, 200, 399, 400, 503}

\* The status codes drawn where the monitor loop runs: one inside and one
\* outside [200, 400).
LoopStatusCodes == {200, 503}

Raised(exc) == [kind |-> "raised", status_code |-> 0, exc |-> exc]

\* The exceptions of a request on an open client: a transport error, a timeout.
RequestErrors == {"ConnectError", "TimeoutException"}

\* What a request on an open client can do, given the status codes the
\* servers answer and the exceptions the transport raises.
Answers(codes, errors) ==
    [kind : {"response"}, status_code : codes, exc : {"none"}]
    \cup {Raised(e) : e \in errors}

\* Variant of ClientGet: the requests go through a client that terminate()
\* does not close.
ClientGet_IgnoresClose(closed, answers) == answers

\* The outcomes of a request issued on the client in the given state: a
\* closed client raises RuntimeError at once.
ClientGet(closed, answers) ==
    IF closed THEN {Raised("RuntimeError")} ELSE answers

\* Variant of fetch_status: the upper bound is inclusive.
fetch_status_Inclusive(outcome) ==
    IF outcome.kind = "response"
    THEN 200 <= outcome.status_code /\ outcome.status_code <= 400
    ELSE FALSE

fetch_status(outcome) ==
    IF outcome.kind = "response"
    THEN 200 <= outcome.status_code /\ outcome.status_code < 400
    ELSE FALSE

\* asyncio.gather(*(self.fetch_status(url) for url in urls))
Gather(outcomes) == [i \in targets |-> fetch_status(outcomes[i])]

\* ------------------------------------------------------------ configuration
\* self.config is owned by the host and may change at any time (hot reload):
\* every read draws a snapshot.  A key may be absent: Dict takes <<>> for an
\* absent key and <<v>> for a present one.
Dict(kv) == [k \in {x \in DOMAIN kv : kv[x] # <<>>} |-> kv[k][1]]

Present(S) == {<<v>> : v \in S}
Optional(S) == {<<>>} \cup Present(S)

SeqsUpTo(S, n) == UNION {[1..k -> S] : k \in 0..n}

PushEntries == {IntVal(123), StrVal(<<" ", "4", "5", "6">>)}

PushLists == SeqsUpTo(PushEntries, MaxPush)

Intervals == {1, 2}

LoopConfigs ==
    {Dict([auto_check |-> a, auto_push_groups |-> p, check_interval |-> i]) :
        a \in Optional(BOOLEAN), p \in Optional(PushLists),
        i \in Optional(Intervals)}

\* The configs of the handler: permission_mode and allowed_groups.
Modes == {"whitelist", "blacklist", "whitlist"}

GroupEntries ==
    {IntVal(123), StrVal(<<"1", "2", "3">>), StrVal(<<" ", "1", "2", "3">>),
     StrVal(<<"4", "5", "6">>)}

Origins ==
    {StrVal(<<"1", "2", "3">>), StrVal(<<"1", "2", "3", " ">>),
     StrVal(<<"4", "5", "6">>)}

PermConfigs ==
    {Dict([permission_mode |-> m, allowed_groups |-> g]) :
        m \in Optional(Modes),
        g \in Optional(SeqsUpTo(GroupEntries, MaxGroups))}

\* The smaller input sets used where handler and loop run together.
QueryStatusCodes == {200}

\* The request outcomes drawn in each specification.
AllAnswers == Answers(StatusCodes, RequestErrors)

LoopAnswers == Answers(LoopStatusCodes, {"TimeoutException"})

QueryAnswers == Answers(QueryStatusCodes, {"ConnectError"})

QueryLoopConfigs ==
    {Dict([auto_check |-> a, auto_push_groups |-> p, check_interval |-> <<>>]) :
        a \in Present(BOOLEAN), p \in Present({<<IntVal(123)>>})}

QueryPermConfigs ==
    {Dict([permission_mode |-> <<>>, allowed_groups |-> g]) :
        g \in Present(SeqsUpTo({IntVal(123)}, 1))}

QueryOrigins == {StrVal(<<"1", "2", "3">>)}

\* ---------------------------------------------------------------- variables
VARIABLES
    pc,                  \* where monitor_task is: created, startDelay, probing,
                         \* dispatch, sleep (suspended); cancelled, failed (done)
    interval,            \* local of monitor_loop: <<>> while unbound, else <<n>>
    has_logged_disabled, \* local of monitor_loop
    push_list,           \* local of monitor_loop
    changes,             \* local of monitor_loop: the change lines of the tick
    last_status,         \* self.last_status
    prev_status,         \* history: last_status when the tick's probes returned
    results,             \* local of monitor_loop: the verdicts of the tick
    prev_results,        \* history: the verdicts of the previous active tick
    probed,              \* history: did this tick issue its probes
    diffed,              \* history: did this tick compare its verdicts
    notices,             \* history: the message objects built in this tick
    sends,               \* history: the send_message calls of this tick
    tick,                \* history: number of iterations of the while loop
    tick_error,          \* history: this iteration took the except branch
    inactive_logs,       \* history: number of "inactive" log lines
    run_len,             \* history: inactive ticks since the last active tick
    logged_now,          \* history: this tick wrote the "inactive" log line
    sleep_for,           \* history: <<seconds>> of the asyncio.sleep awaited
    undelivered,         \* history: the last finished dispatch reached nobody
    cancel_requested,    \* monitor_task.cancel() was called and not delivered
    tpc,                 \* where terminate() is: idle, awaiting, closing, done
    client_closed,       \* self.client has been closed
    close_count,         \* history: number of completed self.client.aclose()
    cancel_at,           \* history: pc and tick when cancel() was called
    query                \* the on_steam_status invocations

loopVars == <<pc, interval, has_logged_disabled, push_list, changes,
              last_status, prev_status, results, prev_results, probed, diffed,
              notices, sends, tick, tick_error, inactive_logs, run_len,
              logged_now, sleep_for, undelivered>>

termVars == <<cancel_requested, tpc, client_closed, close_count, cancel_at>>

vars == <<loopVars, termVars, query>>

Suspended == {"created", "startDelay", "probing", "dispatch", "sleep"}

Finished == {"cancelled", "failed"}

\* An on_steam_status invocation that has not been called yet.
IdleQuery ==
    [pc |-> "idle", cfg |-> <<>>, origin |-> <<>>, permitted |-> FALSE,
     replies |-> <<>>, probes |-> 0, closed_at_issue |-> FALSE,
     outcomes |-> <<>>, statuses |-> <<>>]

\* ------------------------------------------------------------ monitor_loop
Init ==
    /\ pc = "created"
    /\ interval = <<>>
    /\ has_logged_disabled = FALSE
    /\ push_list = <<>>
    /\ changes = <<>>
    /\ last_status = [n \in {names[i] : i \in targets} |-> TRUE]
    /\ prev_status = last_status
    /\ results = [i \in targets |-> TRUE]
    /\ prev_results = [i \in targets |-> TRUE]
    /\ probed = FALSE
    /\ diffed = FALSE
    /\ notices = <<>>
    /\ sends = <<>>
    /\ tick = 0
    /\ tick_error = FALSE
    /\ inactive_logs = 0
    /\ run_len = 0
    /\ logged_now = FALSE
    /\ sleep_for = <<>>
    /\ undelivered = FALSE
    /\ cancel_requested = FALSE
    /\ tpc = "idle"
    /\ client_closed = FALSE
    /\ close_count = 0
    /\ cancel_at = <<>>
    /\ query = [q \in 1..MaxQueries |-> IdleQuery]

\* await asyncio.sleep(10)
StartupDelay == 10

\* Variant of TaskStart: the sleep(10) is missing and the first iteration,
\* with monitoring switched on, runs at once up to its gather.
TaskStart_NoDelay ==
    /\ pc = "created"
    /\ ~cancel_requested
    /\ pc' = "probing"
    /\ tick' = 1
    /\ probed' = TRUE
    /\ push_list' = <<IntVal(123)>>
    /\ interval' = <<1>>
    /\ UNCHANGED <<has_logged_disabled, changes, last_status, prev_status,
                   results, prev_results, diffed, notices, sends, tick_error,
                   inactive_logs, run_len, logged_now, sleep_for, undelivered,
                   termVars, query>>

\* The event loop runs monitor_task for the first time: up to sleep(10).
TaskStart ==
    /\ pc = "created"
    /\ ~cancel_requested
    /\ pc' = "startDelay"
    /\ sleep_for' = <<StartupDelay>>
    /\ UNCHANGED <<interval, has_logged_disabled, push_list, changes,
                   last_status, prev_status, results, prev_results, probed,
                   diffed, notices, sends, tick, tick_error, inactive_logs,
                   run_len, logged_now, undelivered, termVars, query>>

\* await asyncio.sleep(interval * 60), outside the try: an unbound interval
\* raises UnboundLocalError out of the coroutine.
SleepEntry(iv) == IF iv = <<>> THEN "failed" ELSE "sleep"

\* The argument of that sleep: interval * 60.
SleepSeconds(iv) == IF iv = <<>> THEN <<>> ELSE <<iv[1] * 60>>

\* for name, current_is_ok in zip(names, results): the lines appended
RECURSIVE ChangeLinesFrom(_, _, _)
ChangeLinesFrom(i, res, last) ==
    IF i > Len(names) THEN <<>>
    ELSE (IF res[i] # last[names[i]]
          THEN <<[name |-> names[i],
                  state_msg |-> IF res[i] THEN "recovered" ELSE "fault"]>>
          ELSE <<>>) \o ChangeLinesFrom(i + 1, res, last)

ChangeLines(res, last) == ChangeLinesFrom(1, res, last)

\* Variant of UpdatedStatus: the assignment to self.last_status[name] is lost.
UpdatedStatus_Stale(res, last) == last

\* Variant of UpdatedStatus: the verdicts are stored under the endpoint's
\* position instead of its name.
UpdatedStatus_KeyedByPosition(res, last) ==
    [n \in DOMAIN last \cup {"0", "1", "2"} |->
        IF n \in DOMAIN last THEN last[n]
        ELSE res[CHOOSE j \in targets : DigitChar[j] = n]]

\* for name, current_is_ok in zip(names, results): the assignments made
UpdatedStatus(res, last) ==
    [n \in DOMAIN last |->
        LET i == CHOOSE j \in targets : names[j] = n
        IN  IF res[i] # last[n] THEN res[i] ELSE last[n]]

\* Variant of NoticeNeeded: the notice is built whether or not anything changed.
NoticeNeeded_Always(ch) == TRUE

\* if changes:
NoticeNeeded(ch) == ch # <<>>

\* The message object built from the change lines.
Notice(ch) == [header |-> "notice", lines |-> ch]

\* One iteration of "for unified_id in push_list" up to its await.
SendCall(unified_id, message_obj) ==
    [target_id |-> Strip(Str(unified_id)), message |-> message_obj,
     outcome |-> "pending"]

\* An exception raised by a config read inside the try: read number fail_at
\* of the three raises, the except branch logs, then the sleep is entered.
TickConfigError(c, fail_at) ==
    /\ push_list' = IF fail_at = 3 THEN Get(c, "auto_push_groups", <<>>)
                    ELSE push_list
    /\ tick_error' = TRUE
    /\ pc' = SleepEntry(interval)
    /\ sleep_for' = SleepSeconds(interval)
    /\ probed' = FALSE
    /\ logged_now' = FALSE
    /\ UNCHANGED <<interval, has_logged_disabled, changes, last_status,
                   prev_status, results, prev_results, inactive_logs,
                   run_len>>

\* Variant of TickWithConfig: has_logged_disabled is never set, so every
\* inactive tick writes the log line.
TickWithConfig_LogsEveryTick(c) ==
    LET is_master_on == Get(c, "auto_check", FALSE)
        pl == Get(c, "auto_push_groups", <<>>)
        iv == Get(c, "check_interval", 1)
    IN  /\ push_list' = pl
        /\ interval' = <<iv>>
        /\ tick_error' = FALSE
        /\ IF is_master_on /\ pl # <<>>
           THEN /\ has_logged_disabled' = FALSE
                /\ changes' = <<>>
                /\ probed' = TRUE
                /\ pc' = "probing"
                /\ sleep_for' = <<>>
                /\ run_len' = 0
                /\ logged_now' = FALSE
                /\ UNCHANGED inactive_logs
           ELSE /\ has_logged_disabled' = has_logged_disabled
                /\ inactive_logs' = inactive_logs + 1
                /\ logged_now' = TRUE
                /\ run_len' = run_len + 1
                /\ probed' = FALSE
                /\ pc' = SleepEntry(<<iv>>)
                /\ sleep_for' = SleepSeconds(<<iv>>)
                /\ UNCHANGED changes
        /\ UNCHANGED <<last_status, prev_status, results, prev_results>>

\* Variant of TickWithConfig: an inactive tick resets self.last_status to the
\* initial all-True mapping.
TickWithConfig_ResetsWhenInactive(c) ==
    LET is_master_on == Get(c, "auto_check", FALSE)
        pl == Get(c, "auto_push_groups", <<>>)
        iv == Get(c, "check_interval", 1)
    IN  /\ push_list' = pl
        /\ interval' = <<iv>>
        /\ tick_error' = FALSE
        /\ IF is_master_on /\ pl # <<>>
           THEN /\ has_logged_disabled' = FALSE
                /\ changes' = <<>>
                /\ probed' = TRUE
                /\ pc' = "probing"
                /\ sleep_for' = <<>>
                /\ run_len' = 0
                /\ logged_now' = FALSE
                /\ UNCHANGED inactive_logs
           ELSE /\ has_logged_disabled' = TRUE
                /\ inactive_logs' = IF has_logged_disabled THEN inactive_logs
                                    ELSE inactive_logs + 1
                /\ logged_now' = ~has_logged_disabled
                /\ run_len' = run_len + 1
                /\ probed' = FALSE
                /\ pc' = SleepEntry(<<iv>>)
                /\ sleep_for' = SleepSeconds(<<iv>>)
                /\ UNCHANGED changes
        /\ last_status' = IF is_master_on /\ pl # <<>> THEN last_status
                          ELSE [n \in DOMAIN last_status |-> TRUE]
        /\ UNCHANGED <<prev_status, results, prev_results>>

\* The body of the try with the three config reads succeeding, up to the
\* first await: the gather of an active tick or the sleep of an inactive one.
TickWithConfig(c) ==
    LET is_master_on == Get(c, "auto_check", FALSE)
        pl == Get(c, "auto_push_groups", <<>>)
        iv == Get(c, "check_interval", 1)
    IN  /\ push_list' = pl
        /\ interval' = <<iv>>
        /\ tick_error' = FALSE
        /\ IF is_master_on /\ pl # <<>>
           THEN /\ has_logged_disabled' = FALSE
                /\ changes' = <<>>
                /\ probed' = TRUE
                /\ pc' = "probing"
                /\ sleep_for' = <<>>
                /\ run_len' = 0
                /\ logged_now' = FALSE
                /\ UNCHANGED inactive_logs
           ELSE /\ has_logged_disabled' = TRUE
                /\ inactive_logs' = IF has_logged_disabled THEN inactive_logs
                                    ELSE inactive_logs + 1
                /\ logged_now' = ~has_logged_disabled
                /\ run_len' = run_len + 1
                /\ probed' = FALSE
                /\ pc' = SleepEntry(<<iv>>)
                /\ sleep_for' = SleepSeconds(<<iv>>)
                /\ UNCHANGED changes
        /\ UNCHANGED <<last_status, prev_status, results, prev_results>>

\* The top of "while True" up to the next await.
TickBegin(configs, max_ticks) ==
    /\ tick < max_ticks
    /\ tick' = tick + 1
    /\ diffed' = FALSE
    /\ notices' = <<>>
    /\ sends' = <<>>
    /\ \E c \in configs :
          \/ TickWithConfig(c)
          \/ \E fail_at \in 1..3 : TickConfigError(c, fail_at)
    /\ UNCHANGED <<undelivered, termVars, query>>

\* The startup log reads the config outside any try: a failing read ends the
\* task with that exception.
StartupLogError ==
    /\ pc' = "failed"
    /\ sleep_for' = <<>>
    /\ UNCHANGED <<interval, has_logged_disabled, push_list, changes,
                   last_status, prev_status, results, prev_results, probed,
                   diffed, notices, sends, tick, tick_error, inactive_logs,
                   run_len, logged_now, undelivered, termVars, query>>

\* Variant of StartDelayDone: after the startup delay the loop first sleeps
\* one interval and only then runs its first iteration.
StartDelayDone_SleepsFirst(configs, max_ticks) ==
    /\ pc = "startDelay"
    /\ ~cancel_requested
    /\ \/ StartupLogError
       \/ /\ \E c \in configs :
                /\ interval' = <<Get(c, "check_interval", 1)>>
                /\ sleep_for' = SleepSeconds(interval')
          /\ pc' = "sleep"
          /\ UNCHANGED <<has_logged_disabled, push_list, changes, last_status,
                         prev_status, results, prev_results, probed, diffed,
                         notices, sends, tick, tick_error, inactive_logs,
                         run_len, logged_now, undelivered, termVars, query>>

\* sleep(10) returns: the startup log, then the first iteration.
StartDelayDone(configs, max_ticks) ==
    /\ pc = "startDelay"
    /\ ~cancel_requested
    /\ (StartupLogError \/ TickBegin(configs, max_ticks))

\* sleep(interval * 60) returns: the next iteration.
SleepDone(configs, max_ticks) ==
    /\ pc = "sleep"
    /\ ~cancel_requested
    /\ TickBegin(configs, max_ticks)

\* The gather returns: compare, record, build the notice, start the first send
\* or enter the sleep.
ProbesDone(answers) ==
    /\ pc = "probing"
    /\ ~cancel_requested
    /\ \E outcomes \in [targets -> ClientGet(client_closed, answers)] :
          LET res == Gather(outcomes)
              ch == ChangeLines(res, last_status)
          IN  /\ results' = res
              /\ prev_results' = results
              /\ diffed' = TRUE
              /\ prev_status' = last_status
              /\ changes' = ch
              /\ last_status' = UpdatedStatus(res, last_status)
              /\ IF NoticeNeeded(ch)
                 THEN /\ notices' = <<Notice(ch)>>
                      /\ sends' = <<SendCall(push_list[1], Notice(ch))>>
                      /\ pc' = "dispatch"
                      /\ UNCHANGED sleep_for
                 ELSE /\ pc' = SleepEntry(interval)
                      /\ sleep_for' = SleepSeconds(interval)
                      /\ UNCHANGED <<notices, sends>>
    /\ UNCHANGED <<interval, has_logged_disabled, push_list, probed, tick,
                   tick_error, inactive_logs, run_len, logged_now,
                   undelivered, termVars, query>>

\* Every send_message call of a finished dispatch raised.
NobodyReached(done) == \A k \in DOMAIN done : done[k].outcome = "raised"

\* Variant of SendDone: the try is around the for loop instead of inside it,
\* so a raising send ends the dispatch at the tick's except clause.
SendDone_AbortOnError ==
    /\ pc = "dispatch"
    /\ ~cancel_requested
    /\ \E r \in {"sent", "raised"} :
          LET done == [sends EXCEPT ![Len(sends)].outcome = r]
          IN  IF r = "sent" /\ Len(sends) < Len(push_list)
              THEN /\ sends' = Append(done,
                         SendCall(push_list[Len(sends) + 1], notices[1]))
                   /\ pc' = "dispatch"
                   /\ UNCHANGED <<tick_error, sleep_for, undelivered>>
              ELSE /\ sends' = done
                   /\ pc' = SleepEntry(interval)
                   /\ sleep_for' = SleepSeconds(interval)
                   /\ undelivered' = NobodyReached(done)
                   /\ tick_error' = (r = "raised")
    /\ UNCHANGED <<interval, has_logged_disabled, push_list, changes,
                   last_status, prev_status, results, prev_results, probed,
                   diffed, notices, tick, inactive_logs, run_len, logged_now,
                   termVars, query>>

\* send_message returns or raises; an Exception is caught and logged inside
\* the for loop, which goes on to the next recipient or ends.
SendDone ==
    /\ pc = "dispatch"
    /\ ~cancel_requested
    /\ \E r \in {"sent", "raised"} :
          LET done == [sends EXCEPT ![Len(sends)].outcome = r]
          IN  IF Len(sends) < Len(push_list)
              THEN /\ sends' = Append(done,
                         SendCall(push_list[Len(sends) + 1], notices[1]))
                   /\ pc' = "dispatch"
                   /\ UNCHANGED <<sleep_for, undelivered>>
              ELSE /\ sends' = done
                   /\ pc' = SleepEntry(interval)
                   /\ sleep_for' = SleepSeconds(interval)
                   /\ undelivered' = NobodyReached(done)
    /\ UNCHANGED <<interval, has_logged_disabled, push_list, changes,
                   last_status, prev_status, results, prev_results, probed,
                   diffed, notices, tick, tick_error, inactive_logs, run_len,
                   logged_now, termVars, query>>

\* Variant of CancelDelivered: the tick's except clause catches BaseException,
\* so a cancellation delivered inside the try is logged and the loop sleeps.
CancelDelivered_Swallowed ==
    /\ cancel_requested
    /\ pc \in Suspended
    /\ pc' = IF pc \in {"probing", "dispatch"} THEN "sleep" ELSE "cancelled"
    /\ tick_error' = (pc \in {"probing", "dispatch"} \/ tick_error)
    /\ cancel_requested' = FALSE
    /\ UNCHANGED <<interval, has_logged_disabled, push_list, changes,
                   last_status, prev_status, results, prev_results, probed,
                   diffed, notices, sends, tick, inactive_logs, run_len,
                   logged_now, sleep_for, undelivered, tpc, client_closed,
                   close_count, cancel_at, query>>

\* Variant of CancelDelivered: the except clause around send_message catches
\* BaseException, so a cancellation delivered during a send is logged as a
\* failed send and the for loop goes on.
CancelDelivered_SwallowedBySend ==
    /\ cancel_requested
    /\ pc \in Suspended
    /\ cancel_requested' = FALSE
    /\ IF pc = "dispatch"
       THEN LET done == [sends EXCEPT ![Len(sends)].outcome = "raised"]
            IN  IF Len(sends) < Len(push_list)
                THEN /\ sends' = Append(done,
                           SendCall(push_list[Len(sends) + 1], notices[1]))
                     /\ pc' = "dispatch"
                     /\ UNCHANGED <<sleep_for, undelivered>>
                ELSE /\ sends' = done
                     /\ pc' = SleepEntry(interval)
                     /\ sleep_for' = SleepSeconds(interval)
                     /\ undelivered' = NobodyReached(done)
       ELSE /\ pc' = "cancelled"
            /\ UNCHANGED <<sends, sleep_for, undelivered>>
    /\ UNCHANGED <<interval, has_logged_disabled, push_list, changes,
                   last_status, prev_status, results, prev_results, probed,
                   diffed, notices, tick, tick_error, inactive_logs, run_len,
                   logged_now, tpc, client_closed, close_count, cancel_at,
                   query>>

\* CancelledError is thrown into the task at its await; it is no Exception,
\* so neither except clause catches it (a task not yet started never runs).
CancelDelivered ==
    /\ cancel_requested
    /\ pc \in Suspended
    /\ pc' = "cancelled"
    /\ cancel_requested' = FALSE
    /\ UNCHANGED <<interval, has_logged_disabled, push_list, changes,
                   last_status, prev_status, results, prev_results, probed,
                   diffed, notices, sends, tick, tick_error, inactive_logs,
                   run_len, logged_now, sleep_for, undelivered, tpc,
                   client_closed, close_count, cancel_at, query>>

\* --------------------------------------------------------------- terminate
\* terminate() up to its first await.  cancel() on a finished task does
\* nothing and awaiting it re-raises its exception at once, which the outer
\* except logs: aclose() is skipped.
TerminateCall ==
    /\ tpc = "idle"
    /\ IF pc \in Finished
       THEN /\ tpc' = IF pc = "cancelled" THEN "closing" ELSE "done"
            /\ client_closed' = (pc = "cancelled" \/ client_closed)
            /\ UNCHANGED <<cancel_requested, cancel_at>>
       ELSE /\ cancel_requested' = TRUE
            /\ cancel_at' = <<pc, tick>>
            /\ tpc' = "awaiting"
            /\ UNCHANGED client_closed
    /\ UNCHANGED <<loopVars, close_count, query>>

\* await self.monitor_task completes: CancelledError is passed over and
\* aclose() starts; any other exception goes to the outer except.
TerminateResume ==
    /\ tpc = "awaiting"
    /\ pc \in Finished
    /\ tpc' = IF pc = "cancelled" THEN "closing" ELSE "done"
    /\ client_closed' = (pc = "cancelled" \/ client_closed)
    /\ UNCHANGED <<loopVars, cancel_requested, close_count, cancel_at, query>>

\* await self.client.aclose() completes and terminate() returns.
TerminateReturn ==
    /\ tpc = "closing"
    /\ tpc' = "done"
    /\ close_count' = close_count + 1
    /\ UNCHANGED <<loopVars, cancel_requested, client_closed, cancel_at, query>>

\* --------------------------------------------------------- on_steam_status
Range(f) == {f[i] : i \in DOMAIN f}

\* Variant of PermissionCheck: the blacklist branch tests "not in".
PermissionCheck_BlacklistInverted(mode, permission_groups, current_id) ==
    IF mode = "whitelist"
    THEN IF permission_groups = <<>> THEN FALSE
         ELSE IF current_id \notin Range(permission_groups) THEN FALSE
         ELSE TRUE
    ELSE IF current_id \notin Range(permission_groups) THEN FALSE
         ELSE TRUE

\* Variant of PermissionCheck: the second branch is taken for "blacklist"
\* only and every other mode returns.
PermissionCheck_UnknownDenied(mode, permission_groups, current_id) ==
    IF mode = "whitelist"
    THEN IF permission_groups = <<>> THEN FALSE
         ELSE IF current_id \notin Range(permission_groups) THEN FALSE
         ELSE TRUE
    ELSE IF mode = "blacklist"
    THEN IF current_id \in Range(permission_groups) THEN FALSE
         ELSE TRUE
    ELSE FALSE

\* The permission check of on_steam_status: TRUE when no branch returns.
PermissionCheck(mode, permission_groups, current_id) ==
    IF mode = "whitelist"
    THEN IF permission_groups = <<>> THEN FALSE
         ELSE IF current_id \notin Range(permission_groups) THEN FALSE
         ELSE TRUE
    ELSE IF current_id \in Range(permission_groups) THEN FALSE
         ELSE TRUE

\* [f"{name}: ..." for name, is_ok in zip(names, statuses)]
ReportLines(statuses) ==
    [i \in targets |->
        [name |-> names[i],
         state_msg |-> IF statuses[i] THEN "normal" ELSE "abnormal"]]

Ack == [kind |-> "ack", lines |-> <<>>]

Report(statuses) == [kind |-> "report", lines |-> ReportLines(statuses)]

\* The handler is called with an event: the permission check, then either a
\* return with nothing yielded or the acknowledgment is yielded.
on_steam_status(q, configs, origins) ==
    /\ query[q].pc = "idle"
    /\ \E c \in configs, unified_msg_origin \in origins :
          LET mode == Get(c, "permission_mode", "whitelist")
              raw_groups == Get(c, "allowed_groups", <<>>)
              permission_groups ==
                  [i \in DOMAIN raw_groups |-> Str(raw_groups[i])]
              current_id == Str(unified_msg_origin)
              ok == PermissionCheck(mode, permission_groups, current_id)
          IN  query' = [query EXCEPT ![q] =
                  [pc |-> IF ok THEN "acked" ELSE "done", cfg |-> c,
                   origin |-> unified_msg_origin, permitted |-> ok,
                   replies |-> IF ok THEN <<Ack>> ELSE <<>>, probes |-> 0,
                   closed_at_issue |-> FALSE, outcomes |-> <<>>,
                   statuses |-> <<>>]]
    /\ UNCHANGED <<loopVars, termVars>>

\* The generator is resumed after the acknowledgment: the probes are issued
\* on the shared client and the gather is awaited.
QueryResume(q) ==
    /\ query[q].pc = "acked"
    /\ query' = [query EXCEPT ![q].pc = "probing",
                              ![q].probes = Len(names),
                              ![q].closed_at_issue = client_closed]
    /\ UNCHANGED <<loopVars, termVars>>

\* Variant of QueryProbesDone: fetch_status lets the exception of a failed
\* request through, so the gather raises and no report is yielded.
QueryProbesDone_AbortOnRaise(q, answers) ==
    /\ query[q].pc = "probing"
    /\ \E outcomes \in
            [targets -> ClientGet(query[q].closed_at_issue, answers)] :
          query' = [query EXCEPT
              ![q].pc = "done",
              ![q].outcomes = outcomes,
              ![q].statuses = Gather(outcomes),
              ![q].replies =
                  IF \E i \in targets : outcomes[i].kind = "raised" THEN @
                  ELSE Append(@, Report(Gather(outcomes)))]
    /\ UNCHANGED <<loopVars, termVars>>

\* Variant of QueryProbesDone: the handler records its verdicts in
\* self.last_status.
QueryProbesDone_RecordsStatus(q, answers) ==
    /\ query[q].pc = "probing"
    /\ \E outcomes \in
            [targets -> ClientGet(query[q].closed_at_issue, answers)] :
          /\ query' = [query EXCEPT
                ![q].pc = "done",
                ![q].outcomes = outcomes,
                ![q].statuses = Gather(outcomes),
                ![q].replies = Append(@, Report(Gather(outcomes)))]
          /\ last_status' = UpdatedStatus(Gather(outcomes), last_status)
    /\ UNCHANGED <<pc, interval, has_logged_disabled, push_list, changes,
                   prev_status, results, prev_results, probed, diffed,
                   notices, sends, tick, tick_error, inactive_logs, run_len,
                   logged_now, sleep_for, undelivered, termVars>>

\* The gather returns and the report is yielded.
QueryProbesDone(q, answers) ==
    /\ query[q].pc = "probing"
    /\ \E outcomes \in
            [targets -> ClientGet(query[q].closed_at_issue, answers)] :
          query' = [query EXCEPT
              ![q].pc = "done",
              ![q].outcomes = outcomes,
              ![q].statuses = Gather(outcomes),
              ![q].replies = Append(@, Report(Gather(outcomes)))]
    /\ UNCHANGED <<loopVars, termVars>>

\* ---------------------------------------------------------- specifications
\* The monitor task and terminate().
Next ==
    \/ TaskStart
    \/ StartDelayDone(LoopConfigs, MaxTicks)
    \/ SleepDone(LoopConfigs, MaxTicks)
    \/ ProbesDone(LoopAnswers)
    \/ SendDone
    \/ CancelDelivered
    \/ TerminateCall
    \/ TerminateResume
    \/ TerminateReturn

Spec == Init /\ [][Next]_vars

\* The event loop runs every callback that is ready: a requested cancellation
\* is delivered and a coroutine whose await has completed is resumed.
FairSpec ==
    /\ Spec
    /\ WF_vars(CancelDelivered)
    /\ WF_vars(TerminateResume)
    /\ WF_vars(TerminateReturn)

\* The monitor task, terminate() and the command handler together.
QueryNext ==
    \/ TaskStart
    \/ StartDelayDone(QueryLoopConfigs, MaxTicks)
    \/ SleepDone(QueryLoopConfigs, MaxTicks)
    \/ ProbesDone(QueryAnswers)
    \/ SendDone
    \/ CancelDelivered
    \/ TerminateCall
    \/ TerminateResume
    \/ TerminateReturn
    \/ \E q \in 1..MaxQueries :
          on_steam_status(q, QueryPermConfigs, QueryOrigins)
    \/ \E q \in 1..MaxQueries : QueryResume(q)
    \/ \E q \in 1..MaxQueries : QueryProbesDone(q, QueryAnswers)

QuerySpec == Init /\ [][QueryNext]_vars

\* One invocation of the command handler alone, over the wide permission
\* inputs.
PermNext ==
    \/ on_steam_status(1, PermConfigs, Origins)
    \/ QueryResume(1)
    \/ QueryProbesDone(1, AllAnswers)

PermSpec == Init /\ [][PermNext]_vars

\* One invocation of the command handler and terminate() while the monitor
\* task is not yet past its startup delay, over the wide request outcomes.
ProbeNext ==
    \/ TaskStart
    \/ CancelDelivered
    \/ TerminateCall
    \/ TerminateResume
    \/ TerminateReturn
    \/ on_steam_status(1, QueryPermConfigs, QueryOrigins)
    \/ QueryResume(1)
    \/ QueryProbesDone(1, AllAnswers)

ProbeSpec == Init /\ [][ProbeNext]_vars

\* ------------------------------------------------------------------ claims
\* The verdicts of a tick as a mapping keyed by endpoint name.
ByName(v) ==
    [n \in {names[i] : i \in targets} |->
        v[CHOOSE j \in targets : names[j] = n]]

HasLine(ch, n) == \E k \in DOMAIN ch : ch[k].name = n

\* C1: in every active tick a change line is produced for an endpoint iff its
\* verdict differs from the value last_status held for it when the tick
\* started, which is the value the previous active tick left (TRUE before the
\* first), and last_status holds the tick's verdict from then on until the
\* next active tick compares.
C1_ChangeIffVerdictDiffers ==
    /\ [](tick = 0 => \A i \in targets : last_status[names[i]])
    /\ [](diffed => \A i \in targets :
            /\ HasLine(changes, names[i])
                   <=> (results[i] # prev_status[names[i]])
            /\ HasLine(changes, names[i])
                   <=> (results[i] # prev_results[i])
            /\ last_status[names[i]] = results[i]
            /\ Len(SelectSeq(changes, LAMBDA l : l.name = names[i])) <= 1)
    /\ [][last_status' # last_status => (pc = "probing" /\ diffed')]_vars

\* C1 witness: a second or later active tick reports exactly one endpoint as
\* recovered, so an earlier tick recorded its failure.
C1_Witness ==
    /\ diffed
    /\ tick >= 2
    /\ Len(changes) = 1
    /\ changes[1].state_msg = "recovered"
    /\ \E i \in targets : ~results[i]

\* C2: a tick builds a notice and sends iff it found at least one change; the
\* one notice lists every change line, every send of the tick carries it and
\* goes to the entries of the tick's push_list in order, each once, all of
\* them by the time the tick reaches its sleep; a tick whose verdicts are
\* those of the previous active tick sends nothing.
C2_NoticeIffTransition ==
    /\ Len(notices) <= 1
    /\ (notices # <<>>) <=> (diffed /\ changes # <<>>)
    /\ (sends # <<>>) <=> (diffed /\ changes # <<>>)
    /\ notices # <<>> => notices[1].lines = changes
    /\ Len(sends) <= Len(push_list)
    /\ \A k \in DOMAIN sends :
          /\ sends[k].target_id = Strip(Str(push_list[k]))
          /\ sends[k].message = notices[1]
    /\ (pc = "sleep" /\ diffed /\ changes # <<>>)
          => Len(sends) = Len(push_list)
    /\ (diffed /\ results = prev_results) => sends = <<>>

\* C2 witness: a tick with two changes has sent its one notice to both
\* entries of its push_list and sleeps.
C2_Witness ==
    /\ pc = "sleep"
    /\ diffed
    /\ Len(changes) >= 2
    /\ Len(push_list) >= 2
    /\ Len(sends) = Len(push_list)

\* C3: a send that raised is followed by the send to the next entry of
\* push_list, or, after the last entry, by the tick's sleep; the tick takes no
\* except branch and the task does not end.
C3_DispatchIsolation ==
    \A k \in DOMAIN sends :
        sends[k].outcome = "raised" =>
            /\ pc # "failed"
            /\ ~tick_error
            /\ k < Len(push_list) =>
                  /\ Len(sends) > k
                  /\ sends[k + 1].target_id = Strip(Str(push_list[k + 1]))
            /\ k = Len(push_list) => pc \in {"sleep", "cancelled"}

\* C3 witness: the first send raised, the second was delivered, the loop
\* sleeps.
C3_Witness ==
    /\ pc = "sleep"
    /\ Len(sends) >= 2
    /\ sends[1].outcome = "raised"
    /\ sends[2].outcome = "sent"

\* C4: an iteration that took the except branch of the loop goes on to its
\* sleep; the task does not end because of it.
C4_TickErrorGoesToSleep == tick_error => pc # "failed"

\* C5: once terminate() has returned, the monitor task has finished and the
\* HTTP client has been closed.
C5_TerminateStopsTaskAndClosesClient ==
    tpc = "done" => (pc \in Finished /\ client_closed /\ close_count = 1)

\* C6: when cancel() is called while the task is suspended in the startup
\* delay, the inter-tick sleep or the gather of a tick, the task starts no
\* further iteration and compares no verdicts, it ends cancelled at that
\* await, and terminate() returns with the client closed exactly once.
C6_CancelAtSuspensionPoint ==
    LET atAwait == /\ cancel_at # <<>>
                   /\ cancel_at[1] \in {"startDelay", "sleep", "probing"}
    IN  /\ [](atAwait =>
                /\ tick = cancel_at[2]
                /\ pc \in {cancel_at[1], "cancelled"}
                /\ (cancel_at[1] = "probing" => ~diffed)
                /\ close_count <= 1
                /\ (tpc = "done" => close_count = 1))
        /\ (atAwait ~> (pc = "cancelled" /\ tpc = "done" /\ close_count = 1))

\* C6 witness: terminate() was called during the inter-tick sleep and has
\* returned.
C6_Witness ==
    /\ cancel_at # <<>>
    /\ cancel_at[1] = "sleep"
    /\ pc = "cancelled"
    /\ tpc = "done"

\* The inputs of an invocation that has made its permission decision.
ModeOf(qr) == Get(qr.cfg, "permission_mode", "whitelist")

GroupsOf(qr) == Get(qr.cfg, "allowed_groups", <<>>)

Decided == {q \in DOMAIN query : query[q].pc # "idle"}

\* C7: in whitelist mode the request is permitted iff the group list is
\* non-empty and one of its entries, as a string, equals the requester id; in
\* blacklist mode iff no entry does.
C7_PermissionDecision ==
    \A q \in Decided :
        LET groups == GroupsOf(query[q])
            member == \E i \in DOMAIN groups :
                          Str(groups[i]) = Str(query[q].origin)
        IN  /\ ModeOf(query[q]) = "whitelist"
                  => (query[q].permitted <=> (groups # <<>> /\ member))
            /\ ModeOf(query[q]) = "blacklist"
                  => (query[q].permitted <=> ~member)

\* C7 witness: a whitelist holding the integer 123 permits requester "123".
C7_Witness ==
    /\ query[1].pc # "idle"
    /\ ModeOf(query[1]) = "whitelist"
    /\ GroupsOf(query[1]) = <<IntVal(123)>>
    /\ query[1].origin = StrVal(<<"1", "2", "3">>)
    /\ query[1].permitted

\* C8: the requester id matches a group entry iff the two are equal as
\* strings after both have been trimmed of surrounding whitespace.
C8_TrimmedComparison ==
    \A q \in Decided :
        LET groups == GroupsOf(query[q])
            member == \E i \in DOMAIN groups :
                          Strip(Str(groups[i])) = Strip(Str(query[q].origin))
        IN  /\ ModeOf(query[q]) = "whitelist"
                  => (query[q].permitted <=> (groups # <<>> /\ member))
            /\ ModeOf(query[q]) = "blacklist"
                  => (query[q].permitted <=> ~member)

\* C9: a denied invocation yields nothing and issues no probe; a permitted
\* one yields the acknowledgment, then, whatever the requests did, one report
\* with one line per endpoint in the order of names, "abnormal" for every
\* request that raised or answered outside [200, 400).
C9_ReplyStream ==
    \A q \in DOMAIN query :
        LET qr == query[q]
        IN  /\ ~qr.permitted => (qr.replies = <<>> /\ qr.probes = 0
                                  /\ qr.pc \in {"idle", "done"})
            /\ (qr.permitted /\ qr.pc # "done") => qr.replies = <<Ack>>
            /\ (qr.permitted /\ qr.pc = "done") =>
                  /\ Len(qr.replies) = 2
                  /\ qr.replies[1] = Ack
                  /\ qr.replies[2].kind = "report"
                  /\ Len(qr.replies[2].lines) = Len(names)
                  /\ \A i \in targets :
                        /\ qr.replies[2].lines[i].name = names[i]
                        /\ qr.replies[2].lines[i].state_msg = "normal"
                              <=> /\ qr.outcomes[i].kind = "response"
                                  /\ qr.outcomes[i].status_code \in 200..399

\* C9 witness: a permitted invocation has finished although one of its
\* requests raised and another answered 503.
C9_Witness ==
    /\ query[1].pc = "done"
    /\ query[1].permitted
    /\ \E i, j \in targets :
          /\ query[1].outcomes[i].kind = "raised"
          /\ query[1].outcomes[j].status_code = 503

\* C10: no step of an on_steam_status invocation changes last_status or
\* anything else of the monitor loop, and with invocations interleaved the
\* change lines and the notice of every tick are still those determined by
\* the tick's verdicts and the verdicts of the previous active tick.
C10_QueryLeavesLoopAlone ==
    /\ [][query' # query => UNCHANGED loopVars]_vars
    /\ [](diffed =>
            /\ changes = ChangeLines(results, ByName(prev_results))
            /\ last_status = ByName(results)
            /\ (notices # <<>>) <=> (changes # <<>>)
            /\ notices # <<>> => notices[1].lines = changes)

\* C10 witness: an invocation that saw an endpoint down has finished, the
\* loop is in the gather of a tick and last_status still has every endpoint
\* up.
C10_Witness ==
    /\ query[1].pc = "done"
    /\ query[1].permitted
    /\ \E i \in targets : query[1].outcomes[i].kind = "raised"
    /\ tick >= 1
    /\ pc = "probing"
    /\ \A i \in targets : last_status[names[i]]

\* The monitor task was cancelled while suspended at the given await.
CancelledAt(where) == cancel_at # <<>> /\ cancel_at[1] = where

C12_FetchStatusVerdict ==
    \A q \in DOMAIN query :
        LET qr == query[q]
        IN  (qr.permitted /\ qr.pc = "done") =>
               /\ Len(qr.statuses) = Len(names)
               /\ \A i \in targets :
                     LET o == qr.outcomes[i]
                     IN  /\ qr.statuses[i] \in BOOLEAN
                         /\ qr.statuses[i] <=>
                               /\ o.kind = "response"
                               /\ 200 <= o.status_code
                               /\ o.status_code < 400
                         /\ o.kind = "raised" => ~qr.statuses[i]
                         /\ qr.closed_at_issue =>
                               (o = Raised("RuntimeError") /\ ~qr.statuses[i])

\* C12 witness: one gather saw status 399 (true), status 400 (false) and a
\* timeout (false).
C12_Witness ==
    /\ query[1].pc = "done"
    /\ query[1].permitted
    /\ \E i, j, k \in targets :
          /\ query[1].outcomes[i].status_code = 399 /\ query[1].statuses[i]
          /\ query[1].outcomes[j].status_code = 400 /\ ~query[1].statuses[j]
          /\ query[1].outcomes[k] = Raised("TimeoutException")
          /\ ~query[1].statuses[k]

\* C13 as stated: every Probing phase, the first included, is entered from a
\* Waiting sleep.
C13_ProbingFollowsWaiting ==
    [][(pc' = "probing" /\ tick' # tick) => pc = "sleep"]_vars

\* C13 amended: the first tick follows the startup delay of 10 seconds
\* directly, with no Waiting sleep before it; every later tick is entered from
\* a Waiting sleep of interval * 60 seconds; Notifying is entered only from
\* Probing and Waiting only from the tick that precedes it.
C13_PhaseOrder ==
    /\ [](pc = "startDelay" => sleep_for = <<StartupDelay>>)
    /\ [](pc = "sleep" =>
            /\ interval # <<>>
            /\ sleep_for = <<interval[1] * 60>>)
    /\ [][pc' = "startDelay" => pc \in {"created", "startDelay"}]_vars
    /\ [][tick' # tick =>
            /\ tick' = tick + 1
            /\ tick = 0 <=> pc = "startDelay"
            /\ tick > 0 <=> pc = "sleep"]_vars
    /\ [][(pc' = "dispatch" /\ pc # "dispatch") =>
            (pc = "probing" /\ tick' = tick)]_vars
    /\ [][(pc' = "sleep" /\ tick' = tick /\ pc # "sleep") =>
            pc \in {"probing", "dispatch"}]_vars

\* C13 witness: the first tick is in its gather and no Waiting sleep has been
\* entered yet.
C13_Witness ==
    /\ pc = "probing"
    /\ tick = 1
    /\ sleep_for = <<>>

\* C14: until the startup delay of 10 seconds has completed no request and no
\* notice is sent, the first tick starts only on the step that ends the
\* delay, and a cancellation delivered during the delay ends the task with
\* nothing sent.
C14_NothingBeforeGraceDelay ==
    /\ [](pc \in {"created", "startDelay"} =>
            (tick = 0 /\ ~probed /\ ~diffed /\ notices = <<>> /\ sends = <<>>))
    /\ []((CancelledAt("created") \/ CancelledAt("startDelay")) =>
            /\ pc \in {"created", "startDelay", "cancelled"}
            /\ tick = 0 /\ ~probed /\ notices = <<>> /\ sends = <<>>)
    /\ [][(tick = 0 /\ (tick' # 0 \/ probed' \/ sends' # <<>>)) =>
            /\ pc = "startDelay"
            /\ sleep_for = <<StartupDelay>>
            /\ ~cancel_requested]_vars

\* C14 witness: the task was cancelled during the startup delay and
\* terminate has returned.
C14_Witness ==
    /\ CancelledAt("startDelay")
    /\ pc = "cancelled"
    /\ tpc = "done"
    /\ tick = 0

\* C15: a cancellation requested while a send is in flight ends the task in
\* that tick: the send in flight is not completed, no further send is
\* started, and the task reaches its cancelled end.
C15_CancelDuringDispatch ==
    /\ [](CancelledAt("dispatch") =>
            /\ pc \in {"dispatch", "cancelled"}
            /\ tick = cancel_at[2]
            /\ sends # <<>>
            /\ sends[Len(sends)].outcome = "pending")
    /\ [][CancelledAt("dispatch") => sends' = sends]_vars
    /\ (CancelledAt("dispatch") ~> pc = "cancelled")

\* C15 witness: the task ended cancelled during the first of two sends, the
\* second recipient was never addressed.
C15_Witness ==
    /\ CancelledAt("dispatch")
    /\ pc = "cancelled"
    /\ Len(push_list) = 2
    /\ Len(sends) = 1

\* C16: the keys of last_status are the configured endpoint names, no more
\* and no fewer, at every moment.
C16_LastStatusKeys ==
    /\ DOMAIN last_status = {names[i] : i \in targets}
    /\ Cardinality(DOMAIN last_status) = Len(names)
    /\ \A n \in DOMAIN last_status : last_status[n] \in BOOLEAN

\* C16 witness: a tick has recorded a changed verdict, an invocation of the
\* command has finished and terminate has returned.
C16_Witness ==
    /\ diffed
    /\ changes # <<>>
    /\ \E n \in DOMAIN last_status : ~last_status[n]
    /\ query[1].pc = "done"
    /\ tpc = "done"

\* C17: last_status holds the tick's verdicts before the first send is
\* awaited, so a tick whose verdicts equal those of the previous active tick
\* reports nothing although the earlier notice reached nobody; every change
\* line reflects a verdict that differs from the previous active tick's.
C17_UpdateBeforeSendNoRetry ==
    /\ pc = "dispatch" => last_status = ByName(results)
    /\ CancelledAt("dispatch") => last_status = ByName(results)
    /\ (diffed /\ results = prev_results) =>
          (changes = <<>> /\ notices = <<>> /\ sends = <<>>)
    /\ diffed =>
          \A k \in DOMAIN changes :
              \E i \in targets :
                  /\ names[i] = changes[k].name
                  /\ results[i] # prev_results[i]

\* C17 witness: every send of an outage notice failed, the next tick saw the
\* same outage and sent nothing.
C17_Witness ==
    /\ tick >= 2
    /\ diffed
    /\ undelivered
    /\ results = prev_results
    /\ \E i \in targets : ~results[i]
    /\ sends = <<>>
    /\ pc = "sleep"

\* C18: an inactive tick leaves last_status and the stored verdicts alone,
\* and the first active tick after it is compared with the verdicts of the
\* last active tick before it.
C18_InactiveKeepsLastStatus ==
    /\ [][(tick' = tick + 1 /\ ~probed') =>
            (last_status' = last_status /\ results' = results)]_vars
    /\ [](diffed =>
            /\ prev_status = ByName(prev_results)
            /\ changes = ChangeLines(results, prev_status))

\* C18 witness: monitoring was inactive in the first tick and the second
\* tick reported an outage against the initial all-normal mapping.
C18_Witness ==
    /\ tick = 2
    /\ diffed
    /\ inactive_logs = 1
    /\ changes # <<>>
    /\ \A i \in targets : prev_results[i]

\* C19: a permitted invocation that issues its requests after terminate has
\* closed the client still yields the acknowledgement and then the report,
\* and the report shows every endpoint as abnormal.
C19_QueryAfterClose ==
    \A q \in DOMAIN query :
        LET qr == query[q]
        IN  /\ (client_closed /\ qr.permitted /\ qr.pc = "done") =>
                  /\ Len(qr.replies) = 2
                  /\ qr.replies[1] = Ack
                  /\ qr.replies[2].kind = "report"
            /\ qr.closed_at_issue =>
                  (qr.permitted /\ qr.pc \in {"probing", "done"})
            /\ (qr.closed_at_issue /\ qr.pc = "probing") =>
                  qr.replies = <<Ack>>
            /\ (qr.closed_at_issue /\ qr.pc = "done") =>
                  /\ qr.replies = <<Ack, Report([i \in targets |-> FALSE])>>
                  /\ \A i \in targets :
                        /\ qr.replies[2].lines[i].name = names[i]
                        /\ qr.replies[2].lines[i].state_msg = "abnormal"

\* C19 witness: terminate has returned, the client is closed and an
\* invocation that probed afterwards has delivered its report.
C19_Witness ==
    /\ tpc = "done"
    /\ client_closed
    /\ query[1].pc = "done"
    /\ query[1].closed_at_issue
    /\ Len(query[1].replies) = 2

\* C20: a permission_mode that is present and is not exactly "whitelist" is
\* evaluated as a blacklist, so a request is permitted iff the requester is
\* not listed and an empty list permits everyone; only a missing key gives
\* whitelist behaviour.
C20_UnknownModeIsBlacklist ==
    \A q \in Decided :
        LET qr == query[q]
            groups == GroupsOf(qr)
            member == \E i \in DOMAIN groups : Str(groups[i]) = Str(qr.origin)
        IN  /\ ("permission_mode" \in DOMAIN qr.cfg
                  /\ qr.cfg["permission_mode"] # "whitelist")
                  => (qr.permitted <=> ~member)
            /\ "permission_mode" \notin DOMAIN qr.cfg
                  => (qr.permitted <=> (groups # <<>> /\ member))

\* C20 witness: with permission_mode "whitlist" and an empty group list the
\* request is permitted.
C20_Witness ==
    /\ query[1].pc # "idle"
    /\ "permission_mode" \in DOMAIN query[1].cfg
    /\ query[1].cfg["permission_mode"] = "whitlist"
    /\ GroupsOf(query[1]) = <<>>
    /\ query[1].permitted

====
